---- MODULE Spec2Model ----
(***************************************************************************)
(* Horse marketplace (src/app.py): the user, horse and order tables, the   *)
(* request handlers register, sell, edit, delete and checkout, and the     *)
(* ORM session each request works in.                                      *)
(*                                                                         *)
(* A handler that reads a row and later commits is two steps: the read     *)
(* with the handler's checks and assignments on the session's copy of the  *)
(* row, and the commit, which flushes the session's pending writes as one  *)
(* transaction against the tables as they are at that moment.  Requests    *)
(* take no row locks, so other requests may commit in between.  A flush    *)
(* writes only the columns whose value differs from the one loaded.  The   *)
(* store enforces the schema's constraints: order.horse_id is unique, NOT  *)
(* NULL and a foreign key.  A commit that fails writes nothing and the     *)
(* request ends with a server error.                                       *)
(*                                                                         *)
(* Form values are sequences of one-character strings, so that strip(),    *)
(* lower(), int() and float() are computed on the characters.  Primary     *)
(* keys come from a sequence and are never handed out twice.  The current  *)
(* user of a request is nobody or any account in the user table.           *)
(***************************************************************************)
EXTENDS Integers, Sequences, FiniteSets, TLC

\* ------------------------------------------------------------------ bounds
\* Listings ever created (horse ids 1..MaxHorses).
MaxHorses == 1
\* Requests that may be between their read and their commit at once.
MaxReqs == 2

\* ------------------------------------------------------------------ text
Digits == {"0", "1", "2", "3", "4", "5", "6", "7", "8", "9"}

DigitVal(c) ==
    CASE c = "0" -> 0 [] c = "1" -> 1 [] c = "2" -> 2 [] c = "3" -> 3
      [] c = "4" -> 4 [] c = "5" -> 5 [] c = "6" -> 6 [] c = "7" -> 7
      [] c = "8" -> 8 [] c = "9" -> 9

RECURSIVE LStrip(_)
LStrip(s) == IF s # <<>> /\ Head(s) = " " THEN LStrip(Tail(s)) ELSE s

RECURSIVE RStrip(_)
RStrip(s) ==
    IF s # <<>> /\ s[Len(s)] = " " THEN RStrip(SubSeq(s, 1, Len(s) - 1)) ELSE s

\* str.strip()
Strip(s) == RStrip(LStrip(s))

LowerChar(c) == CASE c = "A" -> "a" [] c = "B" -> "b" [] OTHER -> c

\* str.lower()
Lower(s) == [i \in 1..Len(s) |-> LowerChar(s[i])]

\* request.form.get(key, default)
FormGet(form, key, default) == IF key \in DOMAIN form THEN form[key] ELSE default

\* The literal with a leading sign removed, and the sign.
Unsigned(t) == IF t # <<>> /\ t[1] \in {"+", "-"} THEN Tail(t) ELSE t
Sign(t) == IF t # <<>> /\ t[1] = "-" THEN -1 ELSE 1

RECURSIVE DigitsVal(_)
DigitsVal(d) ==
    IF d = <<>> THEN 0
    ELSE 10 * DigitsVal(SubSeq(d, 1, Len(d) - 1)) + DigitVal(d[Len(d)])

\* int(s) does not raise ValueError: blanks, an optional sign, digits.
IntOk(s) ==
    LET u == Unsigned(Strip(s))
    IN  u # <<>> /\ \A i \in 1..Len(u) : u[i] \in Digits

IntVal(s) == LET t == Strip(s) IN Sign(t) * DigitsVal(Unsigned(t))

\* float(s) does not raise ValueError: blanks, an optional sign, digits with
\* at most one point and at least one digit.
FloatOk(s) ==
    LET u == Unsigned(Strip(s))
        points == {i \in 1..Len(u) : u[i] = "."}
    IN  /\ Cardinality(points) <= 1
        /\ \A i \in (1..Len(u)) \ points : u[i] \in Digits
        /\ Len(u) > Cardinality(points)

RECURSIVE Normal(_, _)
\* m / 10^e with the trailing zeros of the fraction dropped: 5.0 = 5.
Normal(m, e) ==
    IF m = 0 THEN [m |-> 0, e |-> 0]
    ELSE IF e > 0 /\ m % 10 = 0 THEN Normal(m \div 10, e - 1)
    ELSE [m |-> m, e |-> e]

\* The number float(s) denotes, as mantissa m and decimal exponent e: m / 10^e.
FloatVal(s) ==
    LET t == Strip(s)
        u == Unsigned(t)
        points == {i \in 1..Len(u) : u[i] = "."}
        d == SelectSeq(u, LAMBDA c : c # ".")
        e == IF points = {} THEN 0 ELSE Len(u) - (CHOOSE i \in points : TRUE)
        n == Normal(DigitsVal(d), e)
    IN  [m |-> Sign(t) * n.m, e |-> n.e]

\* ------------------------------------------------------------------ state
VARIABLES
    user,       \* the user table: id -> [email, role]; ids are 1..Len(user)
    horse,      \* the horse table: id -> row, for the ids that have a row
    horse_seq,  \* the last horse id handed out
    order,      \* the order table: a sequence of rows, id = position
    req,        \* per request slot: idle, or the session awaiting its commit
    last        \* what the latest step sent back: [op, code]

vars == <<user, horse, horse_seq, order, req, last>>

Slots == 1..MaxReqs
Anonymous == 0
NoImage == "None"

Idle == [op |-> "idle"]

Response(op, code) == [op |-> op, code |-> code]

\* The pre-provisioned administrator account.
AdminUser == [email |-> <<"r">>, role |-> "admin"]

is_authenticated(u) == u # Anonymous

Init ==
    /\ user = <<AdminUser>>
    /\ horse = [h \in {} |-> 0]
    /\ horse_seq = 0
    /\ order = <<>>
    /\ req = [r \in Slots |-> Idle]
    /\ last = Response("none", "none")

\* ------------------------------------------------------------------ helpers
\* NULL in a nullable text column (description, location, phone).
NullText == <<"None">>

\* `value or None`
OrNone(s) == IF s = <<>> THEN NullText ELSE s

Columns ==
    {"name", "breed", "age", "price", "description", "location",
     "status", "image_url", "seller_id"}

\* The response of a step that only moves a request on.
NoResponse == Response("none", "none")

\* What an uncaught exception leaves of a call.
Raised == "Raised"

\* Mutant of upload_file_to_blob: the storage exception is not caught.
upload_uncaught(file, backend) ==
    IF file = "nofile" \/ file = "" THEN NoImage
    ELSE IF backend = "unconfigured" THEN NoImage
    ELSE IF backend = "raise" THEN Raised
    ELSE backend

\* upload_file_to_blob(file): `file` is "nofile" when the request has no image
\* part, else the part's filename; `backend` is "unconfigured" when
\* AZURE_CONNECTION_STRING is not set, "raise" when a storage call throws, else
\* the URL the blob client reports.
upload_file_to_blob(file, backend) ==
    IF file = "nofile" \/ file = "" THEN NoImage
    ELSE IF backend = "unconfigured" THEN NoImage
    ELSE IF backend = "raise" THEN NoImage
    ELSE backend

\* seller_required(): "ok", or the status it aborts with.
seller_required(u) ==
    IF ~is_authenticated(u) THEN "unauthorized"
    ELSE IF user[u].role \notin {"seller", "admin"} THEN "forbidden"
    ELSE "ok"

\* Mutant of can_edit_horse: any logged-in user may edit.
can_edit_any_horse(u, row) == is_authenticated(u)

can_edit_horse(u, row) ==
    IF ~is_authenticated(u) THEN FALSE
    ELSE IF user[u].role = "admin" THEN TRUE
    ELSE row.seller_id = u

\* Mutant of RegisterRole: the submitted role is stored as given.
RegisterRoleAsGiven(role) == role

\* register(): the role stored for the submitted one.
RegisterRole(role) == IF role \notin {"buyer", "seller"} THEN "buyer" ELSE role

\* sell(): the required-field test and the try block on age and price.
SellAgePriceOk(form) ==
    LET age == Strip(FormGet(form, "age", <<>>))
        price == Strip(FormGet(form, "price", <<>>))
    IN  age # <<>> /\ price # <<>> /\ IntOk(age) /\ FloatOk(price)

SellFormOk(form) ==
    /\ Strip(FormGet(form, "name", <<>>)) # <<>>
    /\ Strip(FormGet(form, "breed", <<>>)) # <<>>
    /\ SellAgePriceOk(form)

\* edit(): the try block on age and price.
EditAgePriceOk(form) ==
    /\ IntOk(FormGet(form, "age", <<"0">>))
    /\ FloatOk(FormGet(form, "price", <<"0">>))

\* edit(): the session's copy of the row after the handler's assignments.
EditAssign(sess, form, new_url) ==
    [sess EXCEPT
        !.name = Strip(FormGet(form, "name", <<>>)),
        !.breed = Strip(FormGet(form, "breed", <<>>)),
        !.age = IntVal(FormGet(form, "age", <<"0">>)),
        !.price = FloatVal(FormGet(form, "price", <<"0">>)),
        !.description = OrNone(Strip(FormGet(form, "description", <<>>))),
        !.location = OrNone(Strip(FormGet(form, "location", <<>>))),
        !.image_url = IF new_url # NoImage THEN new_url ELSE @]

\* Mutant of Dirty: the flush writes every column of the session's copy.
DirtyWholeRow(sess, new) == [c \in Columns |-> new[c]]

\* The columns the flush writes: those whose value differs from the one loaded.
Dirty(sess, new) == [c \in {c \in Columns : new[c] # sess[c]} |-> new[c]]

\* UPDATE horse SET <dirty columns> WHERE id = h
ApplyDirty(row, dirty) ==
    [c \in Columns |-> IF c \in DOMAIN dirty THEN dirty[c] ELSE row[c]]

\* Mutant of DeleteBlocked: no status test before the delete.
DeleteNeverBlocked(sess) == FALSE

\* delete(): the handler refuses a listing it read as SOLD.
DeleteBlocked(sess) == sess.status = "SOLD"

\* Order.horse_id is a foreign key, NOT NULL: a horse row an order references
\* cannot be removed.
Referenced(h) == \E i \in 1..Len(order) : order[i].horse_id = h

\* Mutant of UniqueViolation: order.horse_id is not unique.
NoUniqueConstraint(o) == FALSE

\* Order.horse_id is unique.
UniqueViolation(o) == \E i \in 1..Len(order) : order[i].horse_id = o.horse_id

\* Mutant of IsOwnListing: no self-purchase test.
IsNeverOwnListing(u, sess) == FALSE

\* checkout(): the listing is the buyer's own.
IsOwnListing(u, sess) == sess.seller_id = u

\* Mutant of CheckoutAssign: the status assignment is missing.
CheckoutAssignNothing(sess) == sess

\* checkout(): the assignment to the session's copy of the row.
CheckoutAssign(sess) == [sess EXCEPT !.status = "SOLD"]

\* checkout(): the Order built from the session's copy of the row.
NewOrder(u, h, sess, form) ==
    [buyer_id |-> u, horse_id |-> h, price_at_purchase |-> sess.price,
     full_name |-> Strip(FormGet(form, "full_name", <<>>)),
     phone |-> OrNone(Strip(FormGet(form, "phone", <<>>))),
     address |-> Strip(FormGet(form, "address", <<>>)),
     status |-> "PAID"]

Without(f, h) == [x \in (DOMAIN f) \ {h} |-> f[x]]

With(f, h, row) == [x \in (DOMAIN f) \cup {h} |-> IF x = h THEN row ELSE f[x]]

\* ------------------------------------------------------------------ handlers
\* POST/GET /register
register(method, form) ==
    LET email == Lower(Strip(FormGet(form, "email", <<>>)))
        password == FormGet(form, "password", <<>>)
        role == FormGet(form, "role", "buyer")
    IN  /\ UNCHANGED <<horse, horse_seq, order, req>>
        /\ IF method = "GET" THEN
               /\ last' = Response("register", "render")
               /\ UNCHANGED user
           ELSE IF email = <<>> \/ password = <<>> THEN
               /\ last' = Response("register", "invalid")
               /\ UNCHANGED user
           ELSE IF \E i \in 1..Len(user) : user[i].email = email THEN
               /\ last' = Response("register", "exists")
               /\ UNCHANGED user
           ELSE
               /\ user' = Append(user, [email |-> email, role |-> RegisterRole(role)])
               /\ last' = Response("register", "ok")

\* POST/GET /sell
sell(u, method, form, file, backend) ==
    LET image_url == upload_file_to_blob(file, backend)
    IN  /\ UNCHANGED <<user, order, req>>
        /\ IF seller_required(u) # "ok" THEN
               /\ last' = Response("sell", seller_required(u))
               /\ UNCHANGED <<horse, horse_seq>>
           ELSE IF method = "GET" THEN
               /\ last' = Response("sell", "render")
               /\ UNCHANGED <<horse, horse_seq>>
           ELSE IF ~SellFormOk(form) THEN
               /\ last' = Response("sell", "invalid")
               /\ UNCHANGED <<horse, horse_seq>>
           ELSE IF image_url = Raised THEN
               /\ last' = Response("sell", "error")
               /\ UNCHANGED <<horse, horse_seq>>
           ELSE
               /\ horse_seq < MaxHorses
               /\ horse_seq' = horse_seq + 1
               /\ horse' = With(horse, horse_seq + 1,
                      [name |-> Strip(FormGet(form, "name", <<>>)),
                       breed |-> Strip(FormGet(form, "breed", <<>>)),
                       age |-> IntVal(Strip(FormGet(form, "age", <<>>))),
                       price |-> FloatVal(Strip(FormGet(form, "price", <<>>))),
                       description |-> OrNone(Strip(FormGet(form, "description", <<>>))),
                       location |-> OrNone(Strip(FormGet(form, "location", <<>>))),
                       image_url |-> image_url,
                       status |-> "AVAILABLE",
                       seller_id |-> u])
               /\ last' = Response("sell", "ok")

\* POST/GET /edit/<horse_id>, up to the commit
edit(r, u, h, method, form, file, backend) ==
    /\ req[r] = Idle
    /\ UNCHANGED <<user, horse, horse_seq, order>>
    /\ IF ~is_authenticated(u) THEN
           /\ last' = Response("edit", "unauthorized")
           /\ UNCHANGED req
       ELSE IF h \notin DOMAIN horse THEN
           /\ last' = Response("edit", "not_found")
           /\ UNCHANGED req
       ELSE IF ~can_edit_horse(u, horse[h]) THEN
           /\ last' = Response("edit", "forbidden")
           /\ UNCHANGED req
       ELSE IF method = "GET" THEN
           /\ last' = Response("edit", "render")
           /\ UNCHANGED req
       ELSE IF ~EditAgePriceOk(form) THEN
           /\ last' = Response("edit", "invalid")
           /\ UNCHANGED req
       ELSE
           LET new_url == IF file # "nofile" /\ file # ""
                          THEN upload_file_to_blob(file, backend) ELSE NoImage
           IN  IF new_url = Raised THEN
                   /\ last' = Response("edit", "error")
                   /\ UNCHANGED req
               ELSE
                   /\ req' = [req EXCEPT ![r] =
                          [op |-> "edit", user |-> u, horse_id |-> h, form |-> form,
                           file |-> file, new_url |-> new_url,
                           dirty |-> Dirty(horse[h], EditAssign(horse[h], form, new_url))]]
                   /\ last' = NoResponse

\* edit(): db.session.commit()
edit_commit(r) ==
    LET q == req[r]
    IN  /\ q.op = "edit"
        /\ req' = [req EXCEPT ![r] = Idle]
        /\ UNCHANGED <<user, horse_seq, order>>
        /\ IF DOMAIN q.dirty = {} THEN
               /\ last' = Response("edit", "ok")
               /\ UNCHANGED horse
           ELSE IF q.horse_id \notin DOMAIN horse THEN
               /\ last' = Response("edit", "error")
               /\ UNCHANGED horse
           ELSE
               /\ horse' = [horse EXCEPT ![q.horse_id] = ApplyDirty(@, q.dirty)]
               /\ last' = Response("edit", "ok")

\* POST /delete/<horse_id>, up to the commit
delete(r, u, h) ==
    /\ req[r] = Idle
    /\ UNCHANGED <<user, horse, horse_seq, order>>
    /\ IF ~is_authenticated(u) THEN
           /\ last' = Response("delete", "unauthorized")
           /\ UNCHANGED req
       ELSE IF h \notin DOMAIN horse THEN
           /\ last' = Response("delete", "not_found")
           /\ UNCHANGED req
       ELSE IF ~can_edit_horse(u, horse[h]) THEN
           /\ last' = Response("delete", "forbidden")
           /\ UNCHANGED req
       ELSE IF DeleteBlocked(horse[h]) THEN
           /\ last' = Response("delete", "sold_listing")
           /\ UNCHANGED req
       ELSE
           /\ req' = [req EXCEPT ![r] = [op |-> "delete", user |-> u, horse_id |-> h]]
           /\ last' = NoResponse

\* delete(): db.session.commit()
delete_commit(r) ==
    LET q == req[r]
    IN  /\ q.op = "delete"
        /\ req' = [req EXCEPT ![r] = Idle]
        /\ UNCHANGED <<user, horse_seq, order>>
        /\ IF q.horse_id \notin DOMAIN horse THEN
               /\ last' = Response("delete", "ok")
               /\ UNCHANGED horse
           ELSE IF Referenced(q.horse_id) THEN
               /\ last' = Response("delete", "error")
               /\ UNCHANGED horse
           ELSE
               /\ horse' = Without(horse, q.horse_id)
               /\ last' = Response("delete", "ok")

\* POST/GET /checkout/<horse_id>, up to the commit
checkout(r, u, h, method, form) ==
    /\ req[r] = Idle
    /\ UNCHANGED <<user, horse, horse_seq, order>>
    /\ IF ~is_authenticated(u) THEN
           /\ last' = Response("checkout", "unauthorized")
           /\ UNCHANGED req
       ELSE IF h \notin DOMAIN horse THEN
           /\ last' = Response("checkout", "not_found")
           /\ UNCHANGED req
       ELSE IF horse[h].status # "AVAILABLE" THEN
           /\ last' = Response("checkout", "not_available")
           /\ UNCHANGED req
       ELSE IF IsOwnListing(u, horse[h]) THEN
           /\ last' = Response("checkout", "own_listing")
           /\ UNCHANGED req
       ELSE IF method = "GET" THEN
           /\ last' = Response("checkout", "render")
           /\ UNCHANGED req
       ELSE IF Strip(FormGet(form, "full_name", <<>>)) = <<>>
                 \/ Strip(FormGet(form, "address", <<>>)) = <<>> THEN
           /\ last' = Response("checkout", "invalid")
           /\ UNCHANGED req
       ELSE
           /\ req' = [req EXCEPT ![r] =
                  [op |-> "checkout", user |-> u, horse_id |-> h,
                   order |-> NewOrder(u, h, horse[h], form),
                   dirty |-> Dirty(horse[h], CheckoutAssign(horse[h]))]]
           /\ last' = NoResponse

\* checkout(): db.session.commit()
checkout_commit(r) ==
    LET q == req[r]
    IN  /\ q.op = "checkout"
        /\ req' = [req EXCEPT ![r] = Idle]
        /\ UNCHANGED <<user, horse_seq>>
        /\ IF q.horse_id \notin DOMAIN horse \/ UniqueViolation(q.order) THEN
               /\ last' = Response("checkout", "error")
               /\ UNCHANGED <<horse, order>>
           ELSE
               /\ horse' = [horse EXCEPT ![q.horse_id] = ApplyDirty(@, q.dirty)]
               /\ order' = Append(order, q.order)
               /\ last' = Response("checkout", "ok")

\* ------------------------------------------------------------------ requests
\* current_user: nobody, or any account (load_user).
Callers == {Anonymous} \cup (1..Len(user))

HorseIds == 1..MaxHorses

NoFields == [k \in {} |-> <<>>]

Field(key, values) == {key :> v : v \in values}

RegisterForms ==
    {[email |-> <<" ", "A">>, password |-> <<"p">>, role |-> "seller"],
     [email |-> <<"a">>, password |-> <<"p">>],
     [email |-> <<"b">>, password |-> <<"p">>, role |-> "admin"],
     [email |-> <<" ">>, password |-> <<"p">>, role |-> "seller"]}

ShippingForms ==
    {[full_name |-> <<"A">>, address |-> <<"1">>],
     [full_name |-> <<"A">>, address |-> <<" ">>],
     [address |-> <<"1">>]}

\* The listing forms of the concurrent specification: complete forms that
\* differ in price, and one with a malformed age.
CoreForms ==
    {n @@ b @@ a @@ p :
        n \in Field("name", {<<"T">>}), b \in Field("breed", {<<"M">>}),
        a \in Field("age", {<<"7">>, <<"x">>}),
        p \in Field("price", {<<"5">>, <<"6">>})}

\* The listing forms of the form specification: a complete form, and the
\* same form with its age or its price absent, empty, blank, malformed, or
\* well-formed in another spelling.
CompleteForm ==
    [name |-> <<"T">>, breed |-> <<"M">>, age |-> <<"7">>, price |-> <<"5">>]

Except(form, key) == [k \in (DOMAIN form) \ {key} |-> form[k]]

RawForms ==
    {CompleteForm, Except(CompleteForm, "age"), Except(CompleteForm, "price"),
     Except(CompleteForm, "name")}
    \cup {[CompleteForm EXCEPT !.age = a] :
            a \in {<<>>, <<" ">>, <<"x">>, <<"7", ".", "5">>, <<" ", "7", " ">>}}
    \cup {[CompleteForm EXCEPT !.price = p] :
            p \in {<<>>, <<" ">>, <<"x">>, <<".">>, <<"5", ".", "0">>}}

\* An upload is the image part of the request and what the storage does.
NoUpload == <<"nofile", "unconfigured">>

Uploads ==
    {<<"", "blob1">>, <<"pic", "unconfigured">>, <<"pic", "raise">>, <<"pic", "blob1">>}

\* A request: its method, its form and its upload.  A GET carries no form.
Get == [method |-> "GET", form |-> NoFields, file |-> "nofile", backend |-> "unconfigured"]

Post(form, up) == [method |-> "POST", form |-> form, file |-> up[1], backend |-> up[2]]

RegisterRequests == {Get} \cup {Post(f, NoUpload) : f \in RegisterForms}

CheckoutRequests == {Get} \cup {Post(f, NoUpload) : f \in ShippingForms}

CoreRequests == {Get} \cup {Post(f, NoUpload) : f \in CoreForms}

RawRequests ==
    {Get} \cup {Post(f, NoUpload) : f \in RawForms}
          \cup {Post(CompleteForm, up) : up \in Uploads}

Step(slots, requests) ==
    \/ \E q \in RegisterRequests : register(q.method, q.form)
    \/ \E u \in Callers, q \in requests : sell(u, q.method, q.form, q.file, q.backend)
    \/ \E r \in slots, u \in Callers, h \in HorseIds, q \in requests :
           edit(r, u, h, q.method, q.form, q.file, q.backend)
    \/ \E r \in slots : edit_commit(r)
    \/ \E r \in slots, u \in Callers, h \in HorseIds : delete(r, u, h)
    \/ \E r \in slots : delete_commit(r)
    \/ \E r \in slots, u \in Callers, h \in HorseIds, q \in CheckoutRequests :
           checkout(r, u, h, q.method, q.form)
    \/ \E r \in slots : checkout_commit(r)

\* Concurrent requests on listings that differ in price.
Next == Step(Slots, CoreRequests)

Spec == Init /\ [][Next]_vars

\* One request at a time, with every form and every upload outcome.
FormSlots == {CHOOSE r \in Slots : \A x \in Slots : r <= x}

NextForms == Step(FormSlots, RawRequests)

SpecForms == Init /\ [][NextForms]_vars

\* ------------------------------------------------------------------ claims
\* Every step of a handler answers as that handler or, when it leaves its
\* session waiting for the commit, answers nothing.
StepOf(op) == last'.op = op \/ last' = NoResponse

\* The orders that reference listing h.
OrdersOf(h) == {i \in 1..Len(order) : order[i].horse_id = h}

\* The spec's can_edit_listing: an admin, or the listing's seller.
MayEdit(u, h) ==
    /\ u # Anonymous
    /\ user[u].role = "admin" \/ horse[h].seller_id = u

\* Slot r's request commits in this step.
Commits(r, op) == req[r].op = op /\ req'[r] = Idle

\* C1: in every reachable state a listing is SOLD exactly when one order
\* references it: a SOLD listing has one order, an AVAILABLE listing has none.
SoldIffExactlyOneOrder ==
    \A h \in DOMAIN horse :
        /\ horse[h].status \in {"AVAILABLE", "SOLD"}
        /\ horse[h].status = "SOLD" <=> Cardinality(OrdersOf(h)) = 1
        /\ horse[h].status = "AVAILABLE" => OrdersOf(h) = {}

\* C1 witness: a checkout has committed; the listing is SOLD with its one order.
SoldWithItsOrder ==
    \E h \in DOMAIN horse :
        /\ horse[h].status = "SOLD"
        /\ Cardinality(OrdersOf(h)) = 1
        /\ last = Response("checkout", "ok")

\* C2: of two checkouts of one listing at most one commits.  No listing ever
\* has two orders; a checkout that reads the listing after another's commit
\* is answered "not available"; a checkout that read it AVAILABLE and commits
\* after another's commit is rejected by the unique order.horse_id and writes
\* nothing.
AtMostOneCheckoutCommits ==
    /\ [](\A h \in HorseIds : Cardinality(OrdersOf(h)) <= 1)
    /\ [][\A r \in Slots :
            (Commits(r, "checkout") /\ Referenced(req[r].horse_id))
                => /\ last' = Response("checkout", "error")
                   /\ UNCHANGED <<horse, order>>]_vars
    /\ [][\A r \in Slots, u \in Callers \ {Anonymous}, h \in DOMAIN horse,
            q \in CheckoutRequests :
            (StepOf("checkout") /\ Referenced(h) /\ checkout(r, u, h, q.method, q.form))
                => /\ last' = Response("checkout", "not_available")
                   /\ UNCHANGED <<horse, order, req>>]_vars

\* C2 witness: two buyers read the listing as AVAILABLE; one has committed, and
\* the other's session still waits for its commit.
LoserAwaitsCommit ==
    \E r \in Slots, i \in 1..Len(order) :
        /\ req[r].op = "checkout"
        /\ order[i].horse_id = req[r].horse_id
        /\ order[i].buyer_id # req[r].user

\* C3: a checkout of a SOLD listing, GET or POST, by any logged-in user and with
\* any shipping form, is answered "not available" and changes no row; and a
\* SOLD listing stays SOLD in every step.
SoldStaysSold ==
    /\ [][\A r \in Slots, u \in Callers \ {Anonymous}, h \in DOMAIN horse,
            q \in CheckoutRequests :
            (/\ StepOf("checkout") /\ horse[h].status = "SOLD"
             /\ checkout(r, u, h, q.method, q.form))
                => /\ last' = Response("checkout", "not_available")
                   /\ UNCHANGED <<horse, order, req>>]_vars
    /\ [][\A h \in DOMAIN horse :
            horse[h].status = "SOLD"
                => h \in DOMAIN horse' /\ horse'[h].status = "SOLD"]_vars

\* C3 witness: a checkout of a SOLD listing has been answered "not available".
CheckoutOfSoldRefused ==
    /\ last = Response("checkout", "not_available")
    /\ \E h \in DOMAIN horse : horse[h].status = "SOLD"

\* C4: a delete of a listing that is SOLD is refused for its seller and for an
\* admin and changes no row; a delete that read the listing AVAILABLE and
\* commits after a checkout's commit fails and changes no row; every order's
\* listing exists.
SoldListingIsNeverDeleted ==
    /\ [](\A i \in 1..Len(order) : order[i].horse_id \in DOMAIN horse)
    /\ [][\A r \in Slots, u \in Callers, h \in DOMAIN horse :
            (/\ StepOf("delete") /\ horse[h].status = "SOLD" /\ MayEdit(u, h)
             /\ delete(r, u, h))
                => /\ last' = Response("delete", "sold_listing")
                   /\ UNCHANGED <<horse, order, req>>]_vars
    /\ [][\A r \in Slots :
            (Commits(r, "delete") /\ Referenced(req[r].horse_id))
                => /\ last' = Response("delete", "error")
                   /\ UNCHANGED <<horse, order>>]_vars

\* C4 witness: a delete of a SOLD listing has been refused.
DeleteOfSoldRefused ==
    /\ last = Response("delete", "sold_listing")
    /\ \E h \in DOMAIN horse : horse[h].status = "SOLD" /\ OrdersOf(h) # {}

\* C5: an edit or delete of a listing by a caller who is neither an admin nor
\* its seller is answered Forbidden (Unauthorized when not logged in) and
\* changes nothing; and whenever a listing's row is removed or one of its
\* columns other than status changes, the step is the commit of an edit or
\* delete by an admin or the listing's seller.
OnlyAdminOrSellerChangesListing ==
    /\ [][\A r \in Slots, u \in Callers, h \in DOMAIN horse, q \in CoreRequests :
            (/\ StepOf("edit") /\ ~MayEdit(u, h)
             /\ edit(r, u, h, q.method, q.form, q.file, q.backend))
                => /\ last'.code = IF u = Anonymous THEN "unauthorized" ELSE "forbidden"
                   /\ UNCHANGED <<horse, req>>]_vars
    /\ [][\A r \in Slots, u \in Callers, h \in DOMAIN horse :
            (StepOf("delete") /\ ~MayEdit(u, h) /\ delete(r, u, h))
                => /\ last'.code = IF u = Anonymous THEN "unauthorized" ELSE "forbidden"
                   /\ UNCHANGED <<horse, req>>]_vars
    /\ [][\A h \in DOMAIN horse :
            (h \notin DOMAIN horse' \/ [horse'[h] EXCEPT !.status = horse[h].status] # horse[h])
                => \E r \in Slots :
                       /\ Commits(r, "edit") \/ Commits(r, "delete")
                       /\ req[r].horse_id = h
                       /\ MayEdit(req[r].user, h)]_vars

\* C5 witness: an edit of an existing listing has been answered Forbidden.
EditForbidden ==
    /\ last = Response("edit", "forbidden")
    /\ DOMAIN horse # {}

\* C6: a checkout by the listing's own seller is answered with a conflict and
\* changes no row, so an AVAILABLE listing stays AVAILABLE without an order;
\* and no order's buyer is the seller of the order's listing.
NoSelfPurchase ==
    /\ [](\A i \in 1..Len(order) :
            order[i].horse_id \in DOMAIN horse
                => order[i].buyer_id # horse[order[i].horse_id].seller_id)
    /\ [][\A r \in Slots, u \in Callers \ {Anonymous}, h \in DOMAIN horse,
            q \in CheckoutRequests :
            (/\ StepOf("checkout") /\ horse[h].seller_id = u
             /\ checkout(r, u, h, q.method, q.form))
                => /\ last'.code = IF horse[h].status = "AVAILABLE"
                                   THEN "own_listing" ELSE "not_available"
                   /\ UNCHANGED <<horse, order, req>>]_vars

\* C6 witness: a seller's checkout of their own listing has been refused and
\* the listing is AVAILABLE.
OwnCheckoutRefused ==
    /\ last = Response("checkout", "own_listing")
    /\ \E h \in DOMAIN horse : horse[h].status = "AVAILABLE" /\ OrdersOf(h) = {}

\* C7: when a checkout commits, the order and the SOLD status are written in
\* that one step, and the order's price_at_purchase is the price the listing
\* has in the table at that step.
OrderCapturesPriceAtCommit ==
    [][\A r \in Slots :
        (Commits(r, "checkout") /\ order' # order)
            => /\ Len(order') = Len(order) + 1
               /\ horse'[req[r].horse_id].status = "SOLD"
               /\ order'[Len(order')].price_at_purchase = horse[req[r].horse_id].price
               /\ order'[Len(order')].price_at_purchase = horse'[req[r].horse_id].price]_vars

\* C8: an update is accepted only with an age and a price that sell() accepts.
EditValidatesAsSell ==
    \A r \in Slots : req[r].op = "edit" => SellAgePriceOk(req[r].form)

\* A failed upload: no file, no filename, storage unconfigured, or a storage
\* call that throws.
UploadFails(q) ==
    q.file \in {"nofile", ""} \/ q.backend \in {"unconfigured", "raise"}

\* The valid sell requests, and the valid edit requests, whose upload fails.
FailedUploadSells ==
    {q \in RawRequests : q.method = "POST" /\ SellFormOk(q.form) /\ UploadFails(q)}

FailedUploadEdits ==
    {q \in RawRequests : q.method = "POST" /\ EditAgePriceOk(q.form) /\ UploadFails(q)}

\* C9: with a failed upload, a valid sell (while the bound on listings allows
\* one more) still publishes the listing, with no image URL; a valid edit still goes to its commit without writing image_url,
\* and its commit succeeds and leaves the stored image URL as it is.
UploadFailureNeverAborts ==
    /\ [][\A u \in Callers, q \in FailedUploadSells :
            (/\ StepOf("sell") /\ horse_seq < MaxHorses
             /\ seller_required(u) = "ok"
             /\ sell(u, q.method, q.form, q.file, q.backend))
                => /\ last' = Response("sell", "ok")
                   /\ horse_seq + 1 \in DOMAIN horse'
                   /\ horse'[horse_seq + 1].image_url = NoImage]_vars
    /\ [][\A r \in FormSlots, u \in Callers, h \in DOMAIN horse, q \in FailedUploadEdits :
            (/\ StepOf("edit")
             /\ MayEdit(u, h)
             /\ edit(r, u, h, q.method, q.form, q.file, q.backend))
                => /\ req'[r].op = "edit"
                   /\ "image_url" \notin DOMAIN req'[r].dirty]_vars
    /\ [][\A r \in Slots :
            (/\ Commits(r, "edit") /\ req[r].horse_id \in DOMAIN horse
             /\ "image_url" \notin DOMAIN req[r].dirty)
                => /\ last' = Response("edit", "ok")
                   /\ horse'[req[r].horse_id].image_url = horse[req[r].horse_id].image_url]_vars

\* C9 witness: an edit of a listing that has an image came with a file, the
\* upload failed, and the edit awaits its commit.
EditKeptImage ==
    \E r \in Slots :
        /\ req[r].op = "edit"
        /\ req[r].file \notin {"nofile", ""}
        /\ req[r].new_url = NoImage
        /\ req[r].horse_id \in DOMAIN horse
        /\ horse[req[r].horse_id].image_url # NoImage

\* C10: a registration adds one user whose role is buyer or seller, buyer when
\* the submitted role is neither; no step changes or removes an existing user;
\* every listing's seller has role seller or admin.
RolesFixedAtRegistration ==
    /\ [][/\ Len(user') \in {Len(user), Len(user) + 1}
          /\ \A i \in 1..Len(user) : user'[i] = user[i]
          /\ \A i \in (Len(user) + 1)..Len(user') : user'[i].role \in {"buyer", "seller"}]_vars
    /\ [][\A q \in RegisterRequests :
            (/\ StepOf("register")
             /\ FormGet(q.form, "role", "buyer") \notin {"buyer", "seller"}
             /\ user' # user
             /\ register(q.method, q.form))
                => user'[Len(user')].role = "buyer"]_vars
    /\ [](\A h \in DOMAIN horse :
            /\ horse[h].seller_id \in 1..Len(user)
            /\ user[horse[h].seller_id].role \in {"seller", "admin"})

\* C10 witness: the account registered with role "admin" is stored as buyer,
\* and a listing has been created.
AdminRoleStoredAsBuyer ==
    /\ \E i \in 1..Len(user) : user[i].email = <<"b">> /\ user[i].role = "buyer"
    /\ DOMAIN horse # {}

====
